---------------------------- MODULE Spec2Model ----------------------------
(***************************************************************************)
(* Model of jnextafterf, the one routine of java_lang_StrictMath.c that    *)
(* computes anything itself (every other native delegates to fdlibm).      *)
(*                                                                         *)
(* jnextafterf works on the raw bit patterns of its two jfloat arguments,  *)
(* read as signed integers (jint).  The source format is IEEE-754 binary32 *)
(* (1 sign bit, 8 exponent bits, 23 mantissa bits, jint of 32 bits).  TLC  *)
(* integers are themselves 32 bits wide, so the model keeps the layout and *)
(* the two's-complement arithmetic of the source but scales the exponent   *)
(* and mantissa fields down to EBits and MBits bits: the sign mask         *)
(* 0x80000000 becomes 2^(WBits-1) and the magnitude mask 0x7fffffff        *)
(* becomes 2^(WBits-1)-1.  Everything the routine does (mask, compare,     *)
(* add one, subtract one) is independent of the field widths.              *)
(*                                                                         *)
(* A jfloat is held as its bit pattern, a natural number below 2^WBits.    *)
(* A jint is held as the integer it denotes, in JintMin..JintMax.          *)
(***************************************************************************)
EXTENDS Integers, Sequences, FiniteSets

VARIABLES arg1, arg2, pc, mode, origin, calls

vars == <<arg1, arg2, pc, mode, origin, calls>>

(***************************************************************************)
(* Bounds: the widths of the exponent and mantissa fields of the scaled    *)
(* format (8 and 23 in the source's binary32).                             *)
(***************************************************************************)
EBits == 3
MBits == 2

Pow2(n) == 2 ^ n

WBits == 1 + EBits + MBits

\* The bit patterns of a jfloat / the unsigned view of a jint.
Patterns == 0 .. (Pow2(WBits) - 1)

\* 0x80000000 and 0x7fffffff of the source, at the model's width.
SignMask == Pow2(WBits - 1)
MagMask == Pow2(WBits - 1) - 1

\* The range of jint.
JintMin == 0 - Pow2(WBits - 1)
JintMax == Pow2(WBits - 1) - 1
JintRange == JintMin .. JintMax

(***************************************************************************)
(* The reinterpreting casts between jfloat and jint (lines 168, 169, 181): *)
(* the same bits, read as a two's-complement integer and back.             *)
(***************************************************************************)
FloatBitsToJint(p) == IF p >= SignMask THEN p - Pow2(WBits) ELSE p

JintToFloatBits(h) == h % Pow2(WBits)

(***************************************************************************)
(* Bitwise & and | of C on WBits-bit operands, bit by bit.                 *)
(***************************************************************************)
RECURSIVE BitAndN(_, _, _)
BitAndN(a, b, n) ==
    IF n = 0 THEN 0
    ELSE (IF a % 2 = 1 /\ b % 2 = 1 THEN 1 ELSE 0)
         + 2 * BitAndN(a \div 2, b \div 2, n - 1)

RECURSIVE BitOrN(_, _, _)
BitOrN(a, b, n) ==
    IF n = 0 THEN 0
    ELSE (IF a % 2 = 1 \/ b % 2 = 1 THEN 1 ELSE 0)
         + 2 * BitOrN(a \div 2, b \div 2, n - 1)

BitAnd(a, b) == BitAndN(a, b, WBits)
BitOr(a, b) == BitOrN(a, b, WBits)

(***************************************************************************)
(* jnextafterf, line by line.                                              *)
(***************************************************************************)

\* !(hx & 0x7fffffff)                                   /* arg1 == 0 */
StartIsZero(hx) == BitAnd(JintToFloatBits(hx), MagMask) = 0

\* A slip in the zero branch: the sign is taken from start, not direction.
ZeroResultFromStart(hx, hy) ==
    BitOr(BitAnd(JintToFloatBits(hx), SignMask), 1)

\* arg1's bits = (hy & 0x80000000) | 0x1; return arg1;
ZeroResult(hx, hy) ==
    BitOr(BitAnd(JintToFloatBits(hy), SignMask), 1)

\* A slip in the branch test: the second comparison turned round.
BranchTestTurned(hx, hy) == (hx > 0) # (hx < hy)

\* (hx > 0) ^ (hx > hy): both operands are 0 or 1, so ^ is "differ".
BranchTest(hx, hy) == (hx > 0) # (hx > hy)

\* hx += 1 or hx -= 1, as the integer the expression denotes: a value
\* outside JintRange is a signed overflow.
Stepped(hx, hy) == IF BranchTest(hx, hy) THEN hx + 1 ELSE hx - 1

\* The value of the local hx when the routine returns (hx is not assigned
\* in the zero branch).
FinalHx(a1, a2) ==
    LET hx == FloatBitsToJint(a1)
        hy == FloatBitsToJint(a2)
    IN  IF StartIsZero(hx) THEN hx ELSE Stepped(hx, hy)

\* The bit patterns a call can return.  A signed overflow of hx += 1 is
\* undefined behaviour: any pattern may come back.
Returns(a1, a2) ==
    LET hx == FloatBitsToJint(a1)
        hy == FloatBitsToJint(a2)
    IN  IF StartIsZero(hx) THEN {ZeroResult(hx, hy)}
        ELSE IF Stepped(hx, hy) \in JintRange
             THEN {JintToFloatBits(Stepped(hx, hy))}
             ELSE Patterns

(***************************************************************************)
(* What a bit pattern means as a jfloat (IEEE-754, scaled).                *)
(***************************************************************************)
SignBit(p) == p \div SignMask
ExpField(p) == (p % SignMask) \div Pow2(MBits)
MantField(p) == p % Pow2(MBits)
ExpAllOnes == Pow2(EBits) - 1

IsNaN(p) == ExpField(p) = ExpAllOnes /\ MantField(p) # 0
IsInf(p) == ExpField(p) = ExpAllOnes /\ MantField(p) = 0
IsFinite(p) == ExpField(p) # ExpAllOnes
IsZeroValue(p) == ExpField(p) = 0 /\ MantField(p) = 0

PosInf == ExpAllOnes * Pow2(MBits)
NegZero == SignMask
Finites == {p \in Patterns : IsFinite(p)}
Numbers == {p \in Patterns : ~IsNaN(p)}

\* The magnitude of a non-NaN pattern, in units of the smallest subnormal.
\* An infinity gets the magnitude the next exponent would have, which is
\* above every finite one.
Magnitude(p) ==
    IF ExpField(p) = 0 THEN MantField(p)
    ELSE (Pow2(MBits) + MantField(p)) * Pow2(ExpField(p) - 1)

\* The numeric value of a non-NaN pattern (+0 and -0 are both 0).
Value(p) == IF SignBit(p) = 1 THEN 0 - Magnitude(p) ELSE Magnitude(p)

\* The float negation: the sign bit flipped.
Negated(p) == IF p >= SignMask THEN p - SignMask ELSE p + SignMask

\* r is the representable number next above / next below x.
NextAbove(x, r) ==
    /\ ~IsNaN(r)
    /\ Value(r) > Value(x)
    /\ LET vx == Value(x)
           vr == Value(r)
       IN  \A q \in Numbers : LET vq == Value(q) IN ~(vx < vq /\ vq < vr)

NextBelow(x, r) ==
    /\ ~IsNaN(r)
    /\ Value(r) < Value(x)
    /\ LET vx == Value(x)
           vr == Value(r)
       IN  \A q \in Numbers : LET vq == Value(q) IN ~(vr < vq /\ vq < vx)

(***************************************************************************)
(* The state machine: a managed caller invoking the native.                *)
(*   arg1, arg2  the arguments of the next call                            *)
(*   pc          "call" before the native runs, "done" after it returned   *)
(*   mode        what the caller is doing with the results                 *)
(*   origin      the start value the caller began with                     *)
(*   calls       the completed calls of this run                           *)
(***************************************************************************)
CallRecord(a1, a2, r) ==
    [arg1 |-> a1, arg2 |-> a2, hx |-> FinalHx(a1, a2), ret |-> r]

Init ==
    /\ arg1 \in Patterns
    /\ arg2 \in Patterns
    /\ pc = "call"
    /\ mode = "first"
    /\ origin = arg1
    /\ calls = << >>

\* One invocation of jnextafterf(arg1, arg2).
Call ==
    /\ pc = "call"
    /\ \E r \in Returns(arg1, arg2) :
          calls' = Append(calls, CallRecord(arg1, arg2, r))
    /\ pc' = "done"
    /\ UNCHANGED <<arg1, arg2, mode, origin>>

\* The caller steps back: nextafterf(result, start).
Back ==
    /\ pc = "done"
    /\ mode = "first"
    /\ arg1' = calls[1].ret
    /\ arg2' = calls[1].arg1
    /\ mode' = "back"
    /\ pc' = "call"
    /\ UNCHANGED <<origin, calls>>

\* The caller repeats the call on the negated arguments.
Negate ==
    /\ pc = "done"
    /\ mode = "first"
    /\ arg1' = Negated(calls[1].arg1)
    /\ arg2' = Negated(calls[1].arg2)
    /\ mode' = "negated"
    /\ pc' = "call"
    /\ UNCHANGED <<origin, calls>>

Next == Call \/ Back \/ Negate

Spec == Init /\ [][Next]_vars

(***************************************************************************)
(* The caller that walks upwards: x := nextafterf(x, +infinity) until the  *)
(* result is +infinity.                                                    *)
(***************************************************************************)
IterInit ==
    /\ arg1 \in Finites
    /\ arg2 = PosInf
    /\ pc = "call"
    /\ mode = "iter"
    /\ origin = arg1
    /\ calls = << >>

Feed ==
    /\ pc = "done"
    /\ mode = "iter"
    /\ calls[Len(calls)].ret # PosInf
    /\ arg1' = calls[Len(calls)].ret
    /\ calls' = << >>
    /\ pc' = "call"
    /\ UNCHANGED <<arg2, mode, origin>>

IterNext == Call \/ Feed

\* The caller's loop runs on: a call that was made returns, and a result
\* short of +infinity is fed back.
IterSpec == IterInit /\ [][IterNext]_vars /\ WF_vars(IterNext)

(***************************************************************************)
(* The properties.  In Spec, calls[1] is the call on the arguments the     *)
(* run began with; calls[2] is the caller's second call (back or negated). *)
(***************************************************************************)
FirstDone == Len(calls) >= 1
X1 == calls[1].arg1
Y1 == calls[1].arg2
R1 == calls[1].ret
SecondDone == Len(calls) = 2
R2 == calls[2].ret
LastCall == calls[Len(calls)]

\* C1: for finite x (either zero included) and a number y above x (finite
\* or +infinity), nextafterf(x, y) is above x and is the least
\* representable value above x.
C1_UpIsNextAbove ==
    FirstDone =>
        ((IsFinite(X1) /\ ~IsNaN(Y1) /\ Value(Y1) > Value(X1))
            => NextAbove(X1, R1))

\* C2: when start equals direction the result is direction: for finite
\* nonzero x, nextafterf(x, x) has x's bit pattern, and when both are zero
\* (any signs) the result has direction's bit pattern.
C2_EqualReturnsDirection ==
    FirstDone =>
        /\ (X1 = Y1 /\ IsFinite(X1) /\ ~IsZeroValue(X1)) => R1 = X1
        /\ (IsZeroValue(X1) /\ IsZeroValue(Y1)) => R1 = Y1

\* C3: when start is a zero of either sign and direction is not a zero,
\* the result is the smallest subnormal with direction's sign bit: pattern
\* 1 when the bit is clear, sign mask + 1 when it is set, whatever the sign
\* of start.
C3_ZeroStartSmallestSubnormal ==
    FirstDone =>
        ((IsZeroValue(X1) /\ ~IsZeroValue(Y1))
            => R1 = (IF SignBit(Y1) = 0 THEN 1 ELSE SignMask + 1))

\* C3's case: start is -0, direction is positive and the call returned the
\* smallest positive subnormal.
C3_Witness ==
    /\ FirstDone
    /\ X1 = NegZero
    /\ SignBit(Y1) = 0
    /\ ~IsZeroValue(Y1)
    /\ R1 = 1

\* C4: for finite x and a number y below x (finite or -infinity),
\* nextafterf(x, y) is below x and is the greatest representable value
\* below x.
C4_DownIsNextBelow ==
    FirstDone =>
        ((IsFinite(X1) /\ ~IsNaN(Y1) /\ Value(Y1) < Value(X1))
            => NextBelow(X1, R1))

\* C5: for finite nonzero x and y, nextafterf(-x, -y) has the bit pattern
\* of nextafterf(x, y) with the sign bit flipped.
C5_NegationSymmetry ==
    (mode = "negated" /\ SecondDone) =>
        ((IsFinite(X1) /\ ~IsZeroValue(X1) /\ IsFinite(Y1) /\ ~IsZeroValue(Y1))
            => R2 = Negated(R1))

\* C6: walking x := nextafterf(x, +infinity) from any finite x, every step
\* returns the least representable value above the previous one, and the
\* walk reaches +infinity, also from a negative start through zero.
C6_ClimbReachesInfinity ==
    /\ [](pc = "done" => NextAbove(LastCall.arg1, LastCall.ret))
    /\ <>(pc = "done" /\ LastCall.ret = PosInf)

\* C6's case: a walk that began at a negative value has returned +infinity.
C6_Witness ==
    /\ mode = "iter"
    /\ pc = "done"
    /\ SignBit(origin) = 1
    /\ ~IsZeroValue(origin)
    /\ LastCall.ret = PosInf

\* C7: for every pair of input patterns, NaNs and infinities included, the
\* increment or decrement of hx stays within the range of jint.
C7_NoSignedOverflow ==
    \A i \in 1 .. Len(calls) : calls[i].hx \in JintRange

\* C8: for every nonzero start, hx is incremented exactly when
\* |start| < |direction| and decremented otherwise, whatever the signs
\* (stated here for start and direction that are numbers).
C8_IncrementIffSmallerMagnitude ==
    FirstDone =>
        ((~IsZeroValue(X1) /\ ~IsNaN(X1) /\ ~IsNaN(Y1))
            => /\ (calls[1].hx = FloatBitsToJint(X1) + 1)
                      <=> (Magnitude(X1) < Magnitude(Y1))
               /\ (calls[1].hx = FloatBitsToJint(X1) - 1)
                      <=> ~(Magnitude(X1) < Magnitude(Y1)))

\* C9: for finite nonzero x and a number y numerically different from x,
\* nextafterf(nextafterf(x, y), x) has x's bit pattern.
C9_ThereAndBack ==
    (mode = "back" /\ SecondDone) =>
        ((IsFinite(X1) /\ ~IsZeroValue(X1) /\ ~IsNaN(Y1) /\ Value(Y1) # Value(X1))
            => R2 = X1)

\* C10: for a start that is a number (finite or infinite) and a finite
\* direction the result is not a NaN pattern; an infinite start steps back
\* to the largest finite value of its sign.
C10_NoNaNFromFiniteDirection ==
    FirstDone =>
        /\ (~IsNaN(X1) /\ IsFinite(Y1)) => ~IsNaN(R1)
        /\ (IsInf(X1) /\ IsFinite(Y1)) => R1 = X1 - 1

=============================================================================
